---- MODULE Spec2Model ----
(***************************************************************************)
(* galpy_help.py (petar.galpy.help): a one-shot command line tool that     *)
(* looks potentials up in galpy.potential, prints their petar --type-arg   *)
(* encoding and optionally writes it to a configure file.                  *)
(*                                                                         *)
(* Text is modelled as a sequence of tokens: the separators "|", ":" and   *)
(* "," are tokens of their own and every formatted number is one token.    *)
(* Floating point arguments are modelled by integers; the two conversions  *)
(* the program applies to them (str and "%.14g") are kept apart.           *)
(***************************************************************************)
EXTENDS Integers, Sequences, FiniteSets, TLC

VARIABLES
    argv,             \* sys.argv[1:]
    galpy_ok,         \* whether "import galpy" succeeds
    lib,              \* what galpy.potential binds each exported name to
    pc,               \* position in the script
    opts,             \* getopt's option list
    remainder,        \* getopt's positional words
    opt_i,            \* index of the option the loop of line 179 is at
    print_help_flag,
    config_filename,
    print_long_list,  \* the print_long_list parameter of printPotTypeArg
    pot_name,
    pot_module,
    pot_instance,
    ret,              \* what printPotTypeArg returned (or that it raised)
    scan_i,           \* index of the name listPot is at
    out,              \* the lines printed so far
    files,            \* the files written so far
    calls,            \* the lookups made so far (getPotInstance, listPot)
    exit_code         \* the process's exit status, Running before it ends

vars == <<argv, galpy_ok, lib, pc, opts, remainder, opt_i, print_help_flag,
          config_filename, print_long_list, pot_name, pot_module, pot_instance,
          ret, scan_i, out, files, calls, exit_code>>

(***************************************************************************)
(* Bounds of the model.                                                    *)
(***************************************************************************)
MaxArgv == 2        \* words on the command line
MaxComp == 2        \* components of a list of potentials handed to printPotTypeArg
MaxTypes == 2       \* type codes the parser returns for one instance
MaxArgLen == 13     \* arguments the parser returns for one instance

(***************************************************************************)
(* Program constants.                                                      *)
(***************************************************************************)
LongArgLimit == 12          \* line 122: pot_args.size>12
RequiredDim == 3            \* line 37
ExitHelp == 1               \* line 186
ExitError == 2              \* lines 155, 191
ExitUncaught == 1           \* an exception nobody catches ends Python with 1
ExitNormal == 0             \* the script runs off its end
Running == 0 - 1            \* exit_code while the process has not ended
ListOffset == 4             \* line 97: print_front_offset+4

None == [kind |-> "None"]

(***************************************************************************)
(* galpy objects.  An instance carries what the library's probes and       *)
(* parser answer for it.                                                   *)
(***************************************************************************)
Instance(cls, dim, hasC, npot, pot_type, pot_args) ==
    [kind |-> "instance", cls |-> cls, dim |-> dim, hasC |-> hasC,
     npot |-> npot, pot_type |-> pot_type, pot_args |-> pot_args]

ListOf(items) == [kind |-> "list", items |-> items]

\* a class whose default construction raises `raises` ("" for none) or makes `makes`
ClassOf(name, raises, makes) ==
    [kind |-> "type", name |-> name, raises |-> raises, makes |-> makes]

FunctionOf(name) == [kind |-> "function", name |-> name]

TypeOf(obj) == [kind |-> "type", name |-> obj.kind, raises |-> "", makes |-> None]

Min(a, b) == IF a < b THEN a ELSE b

RECURSIVE _dim(_)
_dim(Pot) ==
    IF Pot.kind = "instance" THEN Pot.dim
    ELSE IF Pot.kind = "list"
         THEN IF Len(Pot.items) = 1 THEN _dim(Pot.items[1])
              ELSE Min(_dim(Pot.items[1]), _dim(ListOf(Tail(Pot.items))))
    ELSE 0

RECURSIVE _check_c(_)
_check_c(Pot) ==
    IF Pot.kind = "instance" THEN Pot.hasC
    ELSE IF Pot.kind = "list"
         THEN \A k \in 1..Len(Pot.items) : _check_c(Pot.items[k])
    ELSE FALSE

_parse_pot(pot) ==
    [npot |-> pot.npot, pot_type |-> pot.pot_type, pot_args |-> pot.pot_args]

(***************************************************************************)
(* Number formatting.                                                      *)
(***************************************************************************)
StrInt(k) == ToString(k)                      \* str(pot_type[i]), "%d" % item
StrFloat(a) == "str:" \o ToString(a)          \* str(pot_args[i])
Fmt14g(a) == "%.14g:" \o ToString(a)          \* "%.14g" % item

(***************************************************************************)
(* Printed lines.                                                          *)
(***************************************************************************)
Line(tag, offset, name, text) ==
    [tag |-> tag, offset |-> offset, name |-> name, text |-> text]

Raised(exc, printed) ==
    [raised |-> TRUE, exc |-> exc, type_arg |-> <<>>, npot |-> 0,
     pot_type |-> <<>>, pot_arg |-> <<>>, out |-> printed]

Returned(type_arg, npot, pot_type, pot_arg, printed) ==
    [raised |-> FALSE, exc |-> "", type_arg |-> type_arg, npot |-> npot,
     pot_type |-> pot_type, pot_arg |-> pot_arg, out |-> printed]

(***************************************************************************)
(* printPotTypeArg, lines 68-127.                                          *)
(***************************************************************************)
\* lines 110-113: for i in range(size-1): s += str(a[i])+','; then the last one
RECURSIVE ArgsLoop(_, _, _)
ArgsLoop(s, pot_args, i) ==
    IF i > Len(pot_args) - 1 THEN s
    ELSE ArgsLoop(s \o <<StrFloat(pot_args[i]), ",">>, pot_args, i + 1)

\* the loop run over every argument: a comma after the last one too
pot_args_str_trailing(pot_args) ==
    ArgsLoop(<<>>, Append(pot_args, 0), 1)

pot_args_str(pot_args) ==
    LET s == ArgsLoop(<<>>, pot_args, 1)
    IN  IF Len(pot_args) > 0 THEN s \o <<StrFloat(pot_args[Len(pot_args)])>> ELSE s

\* lines 118-119: for i in range(size-1): type_arg += str(t[i])+','
RECURSIVE TypesLoop(_, _, _)
TypesLoop(s, pot_type, i) ==
    IF i > Len(pot_type) - 1 THEN s
    ELSE TypesLoop(s \o <<StrInt(pot_type[i]), ",">>, pot_type, i + 1)

\* lines 114-120, entered only when pot_type.size > 0
SingleTypeArg(pot_type, pot_args) ==
    IF Len(pot_type) = 1
    THEN <<StrInt(pot_type[1]), ":">> \o pot_args_str(pot_args)
    ELSE TypesLoop(<<>>, pot_type, 1)
             \o <<StrInt(pot_type[Len(pot_type)]), ":">> \o pot_args_str(pot_args)

\* line 122
HidesLongList(pot_args, long) == Len(pot_args) > LongArgLimit /\ ~long

\* lines 106-126: one instance
PrintSingle(name, inst, offset, long) ==
    LET p == _parse_pot(inst)
        assigned == Len(p.pot_type) > 0
        type_arg == SingleTypeArg(p.pot_type, p.pot_args)
    IN  IF HidesLongList(p.pot_args, long)
        THEN LET printed == <<Line("long", offset, name, <<>>)>>
             IN  IF assigned
                 THEN Returned(type_arg, p.npot, p.pot_type, p.pot_args, printed)
                 ELSE Raised("UnboundLocalError", printed)       \* line 126
        ELSE IF assigned
             THEN Returned(type_arg, p.npot, p.pot_type, p.pot_args,
                           <<Line("entry", offset, name, type_arg)>>)
             ELSE Raised("UnboundLocalError", <<>>)              \* line 125

\* the separator added before every component, the first one too
AppendSubAlways(type_arg, type_arg_sub) == type_arg \o <<"|">> \o type_arg_sub

\* lines 98-100
AppendSub(type_arg, type_arg_sub) ==
    (IF type_arg # <<>> THEN type_arg \o <<"|">> ELSE type_arg) \o type_arg_sub

RECURSIVE printPotTypeArg(_, _, _, _, _)
RECURSIVE ListLoop(_, _, _, _, _)

\* lines 96-103: acc is (type_arg, npot, pot_type, pot_arg) and what was printed
ListLoop(acc, items, k, offset, long) ==
    IF k > Len(items) THEN acc
    ELSE LET pot_sub == items[k]
             sub == printPotTypeArg(IF pot_sub.kind = "instance" THEN pot_sub.cls
                                    ELSE pot_sub.kind,
                                    None, pot_sub, offset + ListOffset, long)
         IN  IF sub.raised THEN Raised(sub.exc, acc.out \o sub.out)
             ELSE ListLoop(Returned(AppendSub(acc.type_arg, sub.type_arg),
                                    acc.npot + sub.npot,
                                    acc.pot_type \o sub.pot_type,
                                    acc.pot_arg \o sub.pot_arg,
                                    acc.out \o sub.out),
                           items, k + 1, offset, long)

printPotTypeArg(name, module, instance, print_front_offset, long) ==
    IF module = None /\ instance.kind = "list"
    THEN LET head == <<Line("combination of", print_front_offset, name,
                            <<StrInt(Len(instance.items))>>)>>
             r == ListLoop(Returned(<<>>, 0, <<>>, <<>>, head), instance.items, 1,
                           print_front_offset, long)
         IN  IF r.raised THEN r
             ELSE Returned(r.type_arg, r.npot, r.pot_type, r.pot_arg,
                           r.out \o <<Line("Combination: ", print_front_offset + ListOffset,
                                            "", r.type_arg)>>)
    ELSE IF instance # None
    THEN PrintSingle(name, instance, print_front_offset, long)
    ELSE Returned(<<>>, 0, <<>>, <<>>, <<>>)

(***************************************************************************)
(* savePotTypeArg, lines 45-66: the file is a sequence of lines, a line a  *)
(* sequence of the items written to it.                                    *)
(***************************************************************************)
\* the line break between the type codes and the arguments left out
savePotTypeArgTwoLines(filename, n_pot, pot_type, pot_arg) ==
    [name |-> filename,
     lines |-> << <<"0", StrInt(n_pot)>>,
                  [k \in 1..Len(pot_type) |-> StrInt(pot_type[k])]
                     \o [k \in 1..Len(pot_arg) |-> Fmt14g(pot_arg[k])] >>]

savePotTypeArg(filename, n_pot, pot_type, pot_arg) ==
    [name |-> filename,
     lines |-> << <<"0", StrInt(n_pot)>>,
                  [k \in 1..Len(pot_type) |-> StrInt(pot_type[k])],
                  [k \in 1..Len(pot_arg) |-> Fmt14g(pot_arg[k])] >>]

(***************************************************************************)
(* The names galpy.potential exports, in the order dir() gives them, and   *)
(* the words a command line is made of.                                    *)
(***************************************************************************)
DirGalpyPotential ==
    <<"KeplerPotential", "MWPotential2014", "evaluatePotentials", "vcirc">>

Exported == {DirGalpyPotential[k] : k \in 1..Len(DirGalpyPotential)}

\* line 17: 'Potential' in pot_name
ContainsPotential(name) ==
    name \in {"KeplerPotential", "MWPotential2014", "evaluatePotentials",
              "NoSuchPotential"}

NameWords == {"KeplerPotential", "MWPotential2014", "NoSuchPotential", ""}
OptionWords == {"-d", "-o", "-oout.cfg", "-h", "-l", "-x", "--help", "--"}
Words == OptionWords \cup NameWords

(***************************************************************************)
(* getopt.getopt(args, 'o:dhl', ['help']) of the standard library.         *)
(***************************************************************************)
StartsWithDash(w) == w \in OptionWords        \* no word of the model is "-"
ShortKnown(w) == w \in {"-o", "-oout.cfg", "-d", "-h", "-l"}
ShortHasArg(w) == w \in {"-o", "-oout.cfg"}    \* 'o:' in shortargs
Attached(w) == IF w = "-oout.cfg" THEN "out.cfg" ELSE ""   \* the rest of the word
LongKnown(w) == w = "--help"

GetoptError(msg) == [err |-> TRUE, msg |-> msg, opts |-> <<>>, args |-> <<>>]

RECURSIVE getopt(_, _)
getopt(optlist, args) ==
    IF args = <<>> \/ ~StartsWithDash(Head(args))
    THEN [err |-> FALSE, msg |-> "", opts |-> optlist, args |-> args]
    ELSE IF Head(args) = "--"
    THEN [err |-> FALSE, msg |-> "", opts |-> optlist, args |-> Tail(args)]
    ELSE IF LongKnown(Head(args))
    THEN getopt(Append(optlist, <<Head(args), "">>), Tail(args))
    ELSE IF ~ShortKnown(Head(args))
    THEN GetoptError("option not recognized")
    ELSE IF ShortHasArg(Head(args))
    THEN IF Attached(Head(args)) # ""
         THEN getopt(Append(optlist, <<"-o", Attached(Head(args))>>), Tail(args))
         ELSE IF Tail(args) = <<>>
         THEN GetoptError("option requires argument")
         ELSE getopt(Append(optlist, <<"-o", Head(Tail(args))>>), Tail(Tail(args)))
    ELSE getopt(Append(optlist, <<Head(args), "">>), Tail(args))

(***************************************************************************)
(* getPotInstance, lines 7-43.  attr is galpy.potential's attribute of     *)
(* that name (not read when line 17 says no).                              *)
(***************************************************************************)
CaughtExceptions == {"ValueError", "TypeError", "AttributeError", "RuntimeWarning"}
Exceptions == CaughtExceptions \cup {"KeyError"}

Found(module, instance) ==
    [raised |-> FALSE, exc |-> "", pot_module |-> module, pot_instance |-> instance]

\* lines 26-30
Construct(cls) ==
    IF cls.raises = "" THEN Found(cls, cls.makes)
    ELSE IF cls.raises \in CaughtExceptions THEN Found(None, None)
    ELSE [raised |-> TRUE, exc |-> cls.raises, pot_module |-> None,
          pot_instance |-> None]

\* the native-support probe of lines 39-41 left out
ProbeDimOnly(inst) ==
    IF inst # None
    THEN IF _dim(inst) # RequiredDim THEN None ELSE inst
    ELSE inst

\* lines 35-41
Probe(inst) ==
    IF inst # None
    THEN LET after_dim == IF _dim(inst) # RequiredDim THEN None ELSE inst
         IN  IF ~_check_c(after_dim) THEN None ELSE after_dim
    ELSE inst

getPotInstance(name, attr) ==
    IF name \in Exported /\ ContainsPotential(name)
    THEN LET got == IF attr.kind = "list" THEN Found(None, attr)
                    ELSE IF attr.kind = "type" THEN Construct(attr)
                    ELSE Found(TypeOf(attr), attr)
         IN  IF got.raised THEN got
             ELSE Found(got.pot_module, Probe(got.pot_instance))
    ELSE Found(None, None)

(***************************************************************************)
(* What the library may bind its names to.  The library is fixed for a run *)
(* but not known: the binding of a name is settled when the name is first  *)
(* read and stays the same afterwards.                                     *)
(***************************************************************************)
Unrevealed == [kind |-> "unrevealed"]

ArgList(n, base) == [k \in 1..n |-> base + k]

\* the results of the parser for the instance a class makes
ClassParses ==
    {[npot |-> IF t = <<>> THEN 1 ELSE Len(t), pot_type |-> t, pot_args |-> a] :
        t \in {<<>>, <<7>>, <<24, 25>>},
        a \in {ArgList(2, 0), ArgList(LongArgLimit + 1, 0)}}
    \ {[npot |-> 2, pot_type |-> <<24, 25>>,
         pot_args |-> ArgList(LongArgLimit + 1, 0)]}

ClassChoices(name) ==
    {ClassOf(name, e, None) : e \in Exceptions}
    \cup {ClassOf(name, "", Instance(name, RequiredDim, TRUE, p.npot, p.pot_type,
                                     p.pot_args)) : p \in ClassParses}
    \cup {ClassOf(name, "", Instance(name, d[1], d[2], 1, <<7>>, ArgList(2, 0))) :
            d \in {<<2, TRUE>>, <<3, FALSE>>, <<2, FALSE>>}}

NFW == Instance("NFWPotential", 3, TRUE, 1, <<9>>, ArgList(2, 10))
MiyamotoNagai == Instance("MiyamotoNagaiPotential", 3, TRUE, 1, <<5>>, ArgList(3, 20))
Planar == Instance("planarPotential", 2, TRUE, 1, <<9>>, ArgList(2, 30))
Unparsed == Instance("NullPotential", 3, TRUE, 1, <<>>, <<>>)

ListChoices ==
    {ListOf(<<NFW>>), ListOf(<<NFW, MiyamotoNagai>>), ListOf(<<MiyamotoNagai, NFW>>),
     ListOf(<<NFW, Planar>>), ListOf(<<NFW, Unparsed>>)}

SeqsUpTo(S, n) == UNION {[1..m -> S] : m \in 1..n}

OtherChoices(name) ==
    {FunctionOf(name), Instance(name, 3, TRUE, 1, <<9>>, ArgList(2, 40))}

Choices(name) ==
    IF name = "KeplerPotential" THEN ClassChoices(name)
    ELSE IF name = "MWPotential2014" THEN ListChoices
    ELSE OtherChoices(name)

Readable == {n \in Exported : ContainsPotential(n)}

\* galpy.potential.__getattribute__(pot_name), line 18
Attribute(name) ==
    IF name \in Readable
    THEN IF lib[name] = Unrevealed THEN Choices(name) ELSE {lib[name]}
    ELSE {None}

Reveal(name, attr) ==
    IF name \in Readable THEN [lib EXCEPT ![name] = attr] ELSE lib

(***************************************************************************)
(* The script, lines 146-338.                                              *)
(***************************************************************************)
Say(tag, name) == Line(tag, 0, name, <<>>)

NoReturn == Returned(<<>>, 0, <<>>, <<>>, <<>>)

ArgvChoices == {<<>>} \cup SeqsUpTo(Words, MaxArgv)

Init ==
    /\ argv \in ArgvChoices
    /\ galpy_ok \in BOOLEAN
    /\ lib = [n \in Readable |-> Unrevealed]
    /\ pc = "import"
    /\ opts = <<>>
    /\ remainder = <<>>
    /\ opt_i = 1
    /\ print_help_flag = FALSE
    /\ config_filename = ""
    /\ print_long_list = FALSE
    /\ pot_name = ""
    /\ pot_module = None
    /\ pot_instance = None
    /\ ret = NoReturn
    /\ scan_i = 1
    /\ out = <<>>
    /\ files = <<>>
    /\ calls = <<>>
    /\ exit_code = Running

\* sys.exit(code), or the end of the script
Exit(code, printed) ==
    /\ out' = out \o printed
    /\ exit_code' = code
    /\ pc' = "done"

\* an exception that nothing catches: the traceback, then exit status 1
Uncaught(exc, printed) ==
    Exit(ExitUncaught, printed \o <<Say("Traceback", exc)>>)

\* lines 151-155
ImportGalpy ==
    /\ pc = "import"
    /\ IF galpy_ok
       THEN pc' = "getopt" /\ UNCHANGED <<out, exit_code>>
       ELSE Exit(ExitError, <<Say("galpy is not found", "")>>)
    /\ UNCHANGED <<argv, galpy_ok, lib, opts, remainder, opt_i, print_help_flag,
                   config_filename, print_long_list, pot_name, pot_module,
                   pot_instance, ret, scan_i, files, calls>>

\* lines 173-176 and 188-191
ParseArgs ==
    /\ pc = "getopt"
    /\ LET r == getopt(<<>>, argv)
       IN  IF r.err
           THEN /\ Exit(ExitError, <<Say("getopt error", r.msg), Say("usage", "")>>)
                /\ UNCHANGED <<opts, remainder>>
           ELSE /\ opts' = r.opts
                /\ remainder' = r.args
                /\ pc' = "options"
                /\ UNCHANGED <<out, exit_code>>
    /\ UNCHANGED <<argv, galpy_ok, lib, opt_i, print_help_flag, config_filename,
                   print_long_list, pot_name, pot_module, pot_instance, ret,
                   scan_i, files, calls>>

IsHelpOptionShort(opt) == opt = "-h"                \* the long form forgotten
IsHelpOption(opt) == opt \in {"-h", "--help"}       \* line 184

WantsFileAlways(filename) == TRUE                   \* the test of line 201 left out
WantsFile(filename) == filename # ""                \* line 201

\* lines 179-186, one option at a time
OptionLoop ==
    /\ pc = "options"
    /\ opt_i <= Len(opts)
    /\ LET opt == opts[opt_i][1]
           arg == opts[opt_i][2]
       IN  IF opt = "-d"
           THEN /\ print_help_flag' = TRUE
                /\ opt_i' = opt_i + 1
                /\ UNCHANGED <<config_filename, pc, out, exit_code>>
           ELSE IF opt = "-o"
           THEN /\ config_filename' = arg
                /\ opt_i' = opt_i + 1
                /\ UNCHANGED <<print_help_flag, pc, out, exit_code>>
           ELSE IF IsHelpOption(opt)
           THEN /\ Exit(ExitHelp, <<Say("usage", "")>>)
                /\ UNCHANGED <<print_help_flag, config_filename, opt_i>>
           ELSE /\ opt_i' = opt_i + 1
                /\ UNCHANGED <<print_help_flag, config_filename, pc, out, exit_code>>
    /\ UNCHANGED <<argv, galpy_ok, lib, opts, remainder, print_long_list, pot_name,
                   pot_module, pot_instance, ret, scan_i, files, calls>>

\* lines 194-196
LookupName ==
    /\ pc = "options"
    /\ opt_i > Len(opts)
    /\ Len(remainder) > 0
    /\ pot_name' = remainder[1]
    /\ calls' = Append(calls, <<"getPotInstance", remainder[1]>>)
    /\ \E attr \in Attribute(remainder[1]) :
          LET r == getPotInstance(remainder[1], attr)
          IN  /\ lib' = Reveal(remainder[1], attr)
              /\ IF r.raised
                 THEN /\ Uncaught(r.exc, <<>>)
                      /\ UNCHANGED <<pot_module, pot_instance>>
                 ELSE /\ pot_module' = r.pot_module
                      /\ pot_instance' = r.pot_instance
                      /\ pc' = IF r.pot_instance # None THEN "show" ELSE "notfound"
                      /\ UNCHANGED <<out, exit_code>>
    /\ UNCHANGED <<argv, galpy_ok, opts, remainder, opt_i, print_help_flag,
                   config_filename, print_long_list, ret, scan_i, files>>

\* lines 138-139: listPot's heading
ListHeading == <<Say("title", ""), Say("spliter", "")>>

\* lines 222-338: no name given
Describe ==
    /\ pc = "options"
    /\ opt_i > Len(opts)
    /\ Len(remainder) = 0
    /\ out' = out \o <<Say("description", "")>> \o ListHeading
    /\ calls' = Append(calls, <<"listPot", "">>)
    /\ scan_i' = 1
    /\ pc' = "listPot"
    /\ UNCHANGED <<argv, galpy_ok, lib, opts, remainder, opt_i, print_help_flag,
                   config_filename, print_long_list, pot_name, pot_module,
                   pot_instance, ret, files, exit_code>>

\* lines 198-200
ShowPot ==
    /\ pc = "show"
    /\ LET r == printPotTypeArg(pot_name, pot_module, pot_instance, 0, FALSE)
       IN  /\ ret' = r
           /\ calls' = Append(calls, <<"printPotTypeArg", pot_name>>)
           /\ IF r.raised
              THEN Uncaught(r.exc, <<Say("title", "")>> \o r.out)
              ELSE /\ out' = out \o <<Say("title", "")>> \o r.out
                                 \o <<Say("spliter", "")>>
                   /\ pc' = "save"
                   /\ UNCHANGED exit_code
    /\ UNCHANGED <<argv, galpy_ok, lib, opts, remainder, opt_i, print_help_flag,
                   config_filename, print_long_list, pot_name, pot_module,
                   pot_instance, scan_i, files>>

\* lines 201-204
SavePot ==
    /\ pc = "save"
    /\ IF WantsFile(config_filename)
       THEN /\ out' = out \o <<Say("Save type arguments", pot_name),
                               Say("spliter", "")>>
            /\ files' = Append(files, savePotTypeArg(config_filename, ret.npot,
                                                     ret.pot_type, ret.pot_arg))
       ELSE /\ out' = Append(out, Say("spliter", ""))
            /\ UNCHANGED files
    /\ pc' = "doc"
    /\ UNCHANGED <<argv, galpy_ok, lib, opts, remainder, opt_i, print_help_flag,
                   config_filename, print_long_list, pot_name, pot_module,
                   pot_instance, ret, scan_i, calls, exit_code>>

\* lines 207-213: the documentation of the instance, or of each one of a list
Docs(inst) ==
    IF inst.kind = "list"
    THEN [k \in 1..Len(inst.items) |-> Say("doc", inst.items[k].cls)]
    ELSE <<Say("doc", inst.cls)>>

\* lines 205-218, and the end of the script
PrintDoc ==
    /\ pc = "doc"
    /\ Exit(ExitNormal,
            IF print_help_flag
            THEN <<Say("Class definition", pot_name)>> \o Docs(pot_instance)
                   \o (IF pot_name = "KeplerPotential"
                       THEN <<Say("Kepler notice", "")>> ELSE <<>>)
            ELSE <<>>)
    /\ UNCHANGED <<argv, galpy_ok, lib, opts, remainder, opt_i, print_help_flag,
                   config_filename, print_long_list, pot_name, pot_module,
                   pot_instance, ret, scan_i, files, calls>>

\* lines 219-221
NotFound ==
    /\ pc = "notfound"
    /\ out' = out \o <<Say("is not found", pot_name)>> \o ListHeading
    /\ calls' = Append(calls, <<"listPot", "">>)
    /\ scan_i' = 1
    /\ pc' = "listPot"
    /\ UNCHANGED <<argv, galpy_ok, lib, opts, remainder, opt_i, print_help_flag,
                   config_filename, print_long_list, pot_name, pot_module,
                   pot_instance, ret, files, exit_code>>

\* lines 141-144: listPot at one name; after the last one the script ends
ListPotStep ==
    /\ pc = "listPot"
    /\ scan_i <= Len(DirGalpyPotential)
    /\ LET name == DirGalpyPotential[scan_i]
       IN  \E attr \in Attribute(name) :
                 LET r == getPotInstance(name, attr)
                     p == IF r.pot_instance # None
                          THEN printPotTypeArg(name, r.pot_module, r.pot_instance,
                                               0, FALSE)
                          ELSE NoReturn
                 IN  /\ lib' = Reveal(name, attr)
                     /\ calls' = calls \o <<<<"getPotInstance", name>>>>
                                    \o (IF r.pot_instance # None
                                        THEN <<<<"printPotTypeArg", name>>>> ELSE <<>>)
                     /\ IF r.raised THEN Uncaught(r.exc, <<>>)
                        ELSE IF p.raised THEN Uncaught(p.exc, p.out)
                        ELSE IF scan_i = Len(DirGalpyPotential)
                        THEN Exit(ExitNormal, p.out)
                        ELSE /\ out' = out \o p.out
                             /\ UNCHANGED <<pc, exit_code>>
    /\ scan_i' = scan_i + 1
    /\ UNCHANGED <<argv, galpy_ok, opts, remainder, opt_i, print_help_flag,
                   config_filename, print_long_list, pot_name, pot_module,
                   pot_instance, ret, files>>

Next ==
    \/ ImportGalpy
    \/ ParseArgs
    \/ OptionLoop
    \/ LookupName
    \/ Describe
    \/ ShowPot
    \/ SavePot
    \/ PrintDoc
    \/ NotFound
    \/ ListPotStep

Spec == Init /\ [][Next]_vars

(***************************************************************************)
(* printPotTypeArg on its own: it is handed a potential of the library     *)
(* (one instance, or a list of instances) and either value of              *)
(* print_long_list.                                                        *)
(***************************************************************************)
TypeCodes == {5, 9}

TypeLists == {<<>>} \cup SeqsUpTo(TypeCodes, MaxTypes)

ParsedInstances ==
    {Instance("Potential", 3, TRUE, IF t = <<>> THEN 1 ELSE Len(t), t, ArgList(n, 0)) :
        t \in TypeLists, n \in 0..MaxArgLen}

ListItems ==
    {Instance("Potential", 3, TRUE, IF t = <<>> THEN 1 ELSE Len(t), t, a) :
        t \in {<<>>, <<5>>, <<9, 5>>},
        a \in {<<>>, ArgList(2, 10), ArgList(LongArgLimit + 1, 20)}}

ParsedLists == {ListOf(items) : items \in SeqsUpTo(ListItems, MaxComp)}

InitFmt ==
    /\ argv = <<>>
    /\ galpy_ok = TRUE
    /\ lib = [n \in Readable |-> Unrevealed]
    /\ pc = "call"
    /\ opts = <<>>
    /\ remainder = <<>>
    /\ opt_i = 1
    /\ print_help_flag = FALSE
    /\ config_filename = ""
    /\ print_long_list \in BOOLEAN
    /\ pot_name = "Potential"
    /\ \/ pot_instance \in ParsedInstances /\ pot_module \in {None, TypeOf(pot_instance)}
       \/ pot_instance \in ParsedLists /\ pot_module = None
    /\ ret = NoReturn
    /\ scan_i = 1
    /\ out = <<>>
    /\ files = <<>>
    /\ calls = <<>>
    /\ exit_code = Running

CallPrintPotTypeArg ==
    /\ pc = "call"
    /\ LET r == printPotTypeArg(pot_name, pot_module, pot_instance, 0, print_long_list)
       IN  /\ ret' = r
           /\ out' = r.out
           /\ pc' = IF r.raised THEN "raised" ELSE "returned"
    /\ UNCHANGED <<argv, galpy_ok, lib, opts, remainder, opt_i, print_help_flag,
                   config_filename, print_long_list, pot_name, pot_module,
                   pot_instance, scan_i, files, calls, exit_code>>

NextFmt == CallPrintPotTypeArg

SpecFmt == InitFmt /\ [][NextFmt]_vars

(***************************************************************************)
(* Vocabulary of the properties.                                           *)
(***************************************************************************)
Done == pc = "done"

HasWord(w) == \E k \in 1..Len(argv) : argv[k] = w
HelpInArgv == HasWord("-h") \/ HasWord("--help")
HelpParsed == \E k \in 1..Len(opts) : opts[k][1] \in {"-h", "--help"}
OptGiven(o) == \E k \in 1..Len(opts) : opts[k][1] = o
FileNameGiven == \E k \in 1..Len(opts) : opts[k][1] = "-o" /\ opts[k][2] # ""
ParseFails == getopt(<<>>, argv).err

Printed(tag) == \E k \in 1..Len(out) : out[k].tag = tag
Called(fn) == \E k \in 1..Len(calls) : calls[k][1] = fn
CalledOn(fn, name) == \E k \in 1..Len(calls) : calls[k] = <<fn, name>>

\* the instance a binding of the library stands for, None when it has none
InstanceBound(b) ==
    IF b.kind = "type" THEN (IF b.raises = "" THEN b.makes ELSE None)
    ELSE IF b.kind \in {"list", "instance", "function"} THEN b
    ELSE None

\* the name is exported, is looked at (line 17), and its instance passes both probes
PassesBoth(name) ==
    /\ name \in Exported
    /\ ContainsPotential(name)
    /\ LET i == InstanceBound(lib[name])
       IN  i # None /\ _dim(i) = 3 /\ _check_c(i)

(***************************************************************************)
(* C1: every run ends with exit code 1 if help was requested, 2 if         *)
(* argument parsing failed or galpy cannot be imported, 0 in every other   *)
(* run.  A help request is a -h or --help that getopt took as an option;   *)
(* a failure comes first, as getopt reads the whole command line before    *)
(* any option is acted on.                                                 *)
(***************************************************************************)
C1_Original ==
    Done => exit_code = (IF ~galpy_ok \/ ParseFails THEN 2
                         ELSE IF HelpParsed THEN 1
                         ELSE 0)

(***************************************************************************)
(* C2: for every argument list that contains -h or --help the run prints   *)
(* the usage text and exits before any lookup: getPotInstance and listPot  *)
(* are never called and no file is written.                                *)
(***************************************************************************)
C2_Original ==
    HelpInArgv =>
        /\ calls = <<>>
        /\ files = <<>>
        /\ (Done /\ galpy_ok) => Printed("usage")

\* C2 as amended: when getopt takes -h or --help as an option (galpy imported,
\* the arguments accepted), the run prints the usage text and exits with 1
\* before any lookup, whatever other options and words come with it.
C2_HelpExitsFirst ==
    HelpParsed =>
        /\ calls = <<>>
        /\ files = <<>>
        /\ pc \in {"options", "done"}
        /\ Done => (Printed("usage") /\ exit_code = 1)

\* help asked for together with a potential name: the name was never looked up
C2_Witness == Done /\ HelpParsed /\ Len(remainder) > 0 /\ calls = <<>>

(***************************************************************************)
(* C3: in listPot's scan a candidate whose default construction fails is   *)
(* skipped and the scan goes on with the next name, whatever exception the *)
(* constructor raises.                                                     *)
(***************************************************************************)
ConstructionFails(name) ==
    name \in Readable /\ lib[name].kind = "type" /\ lib[name].raises # ""

EntryFor(name) ==
    \E k \in 1..Len(out) :
        out[k].name = name /\ out[k].tag \in {"entry", "long", "combination of"}

\* the run ended at the k-th name of the scan with a traceback
AbortedAt(k) == Done /\ scan_i = k + 1 /\ out[Len(out)].tag = "Traceback"

C3_Original ==
    Called("listPot") =>
        \A k \in 1..Len(DirGalpyPotential) :
            (scan_i > k /\ ConstructionFails(DirGalpyPotential[k]))
                => (~EntryFor(DirGalpyPotential[k]) /\ ~AbortedAt(k))

RECURSIVE JoinBar(_)
JoinBar(encs) ==
    IF encs = <<>> THEN <<>>
    ELSE IF Len(encs) = 1 THEN encs[1]
    ELSE encs[1] \o <<"|">> \o JoinBar(Tail(encs))

Alone(item) ==
    printPotTypeArg(item.cls, None, item, ListOffset, print_long_list).type_arg

Bars(text) == Cardinality({k \in 1..Len(text) : text[k] = "|"})

C5_ListEncoding ==
    (pc = "returned" /\ pot_instance.kind = "list") =>
        LET items == pot_instance.items
        IN  /\ ret.type_arg = JoinBar([k \in 1..Len(items) |-> Alone(items[k])])
            /\ Bars(ret.type_arg) = Len(items) - 1
            /\ ret.type_arg[1] # "|"
            /\ ret.type_arg[Len(ret.type_arg)] # "|"

\* a list of two different components was encoded
C5_Witness ==
    /\ pc = "returned" /\ pot_instance.kind = "list"
    /\ Len(pot_instance.items) = 2
    /\ pot_instance.items[1] # pot_instance.items[2]

(***************************************************************************)
(* C6: the file written for -o with a supported name of N potentials with  *)
(* K arguments has exactly 3 lines: "0 N", the N type codes, the K         *)
(* argument values, codes and values being the components' in list order.  *)
(***************************************************************************)
PartsOf(inst) == IF inst.kind = "list" THEN inst.items ELSE <<inst>>

RECURSIVE CountOf(_)
CountOf(parts) == IF parts = <<>> THEN 0 ELSE parts[1].npot + CountOf(Tail(parts))

RECURSIVE CodesOf(_)
CodesOf(parts) == IF parts = <<>> THEN <<>> ELSE parts[1].pot_type \o CodesOf(Tail(parts))

RECURSIVE ValuesOf(_)
ValuesOf(parts) == IF parts = <<>> THEN <<>> ELSE parts[1].pot_args \o ValuesOf(Tail(parts))

C6_FileLayout ==
    /\ Len(files) <= 1
    /\ (pc = "doc" /\ config_filename # "") => Len(files) = 1
    /\ (Done /\ exit_code = 0 /\ pot_instance # None /\ config_filename # "")
           => Len(files) = 1
    /\ \A f \in 1..Len(files) :
          LET parts == PartsOf(pot_instance)
              N == CountOf(parts)
              T == CodesOf(parts)
              A == ValuesOf(parts)
              lines == files[f].lines
          IN  /\ files[f].name = config_filename
              /\ Len(lines) = 3
              /\ lines[1] = <<"0", ToString(N)>>
              /\ Len(lines[2]) = N
              /\ lines[2] = [k \in 1..Len(T) |-> ToString(T[k])]
              /\ Len(lines[3]) = Len(A)
              /\ lines[3] = [k \in 1..Len(A) |-> Fmt14g(A[k])]

\* the file of a list of two components was written
C6_Witness ==
    /\ Len(files) = 1
    /\ pot_instance.kind = "list"
    /\ Len(pot_instance.items) = 2

(***************************************************************************)
(* C7: when the name given resolves to no supported potential, the run     *)
(* prints the "is not found" message, lists the supported potentials with  *)
(* listPot, does not exit with a failure code and writes no file.          *)
(***************************************************************************)
C7_Original ==
    (Done /\ Len(remainder) > 0 /\ pot_instance = None /\ Len(calls) > 1) =>
        /\ Printed("is not found")
        /\ Called("listPot")
        /\ exit_code = 0
        /\ files = <<>>

(***************************************************************************)
(* C8: for a potential with more than 12 arguments the type and arguments  *)
(* are not printed on its line (the text about a long argument list is     *)
(* printed instead), and the -l option makes them be printed.              *)
(***************************************************************************)
C8_Original ==
    (pc = "save" /\ pot_instance.kind = "instance" /\ Len(ret.pot_arg) > 12) =>
        IF OptGiven("-l")
        THEN \E k \in 1..Len(out) :
                out[k].tag = "entry" /\ out[k].name = pot_name
                    /\ out[k].text = ret.type_arg
        ELSE Printed("long") /\ ~Printed("entry")

(***************************************************************************)
(* C9: -d and -o take effect only with a positional name that resolves to  *)
(* a supported potential: in every other run no documentation is printed   *)
(* and no file is written; with a supported name the file is written only  *)
(* if -o came with a non-empty file name, the documentation printed only   *)
(* if -d was given.                                                        *)
(***************************************************************************)
DocPrinted == Printed("Class definition") \/ Printed("doc")

C9_OptionsNeedSupportedName ==
    /\ files # <<>> =>
          /\ Len(remainder) > 0
          /\ PassesBoth(remainder[1])
          /\ pot_instance # None
          /\ FileNameGiven
          /\ \A f \in 1..Len(files) : files[f].name # ""
    /\ DocPrinted =>
          /\ Len(remainder) > 0
          /\ PassesBoth(remainder[1])
          /\ pot_instance # None
          /\ OptGiven("-d")

\* -o with a file name and a name that is not supported: the run ends, no file
C9_Witness ==
    /\ Done /\ exit_code = 0
    /\ FileNameGiven
    /\ Len(remainder) > 0
    /\ pot_instance = None
    /\ files = <<>>
    /\ ~DocPrinted

(***************************************************************************)
(* C10: for one instance with type codes T (not empty) and arguments A,    *)
(* printPotTypeArg returns T joined with ",", then ":", then A joined with *)
(* "," (nothing after ":" when A is empty), with the parser's count, T and *)
(* A, whatever print_long_list is and however many arguments there are.    *)
(***************************************************************************)
JoinComma(tokens) ==
    [k \in 1..(2 * Len(tokens) - 1) |-> IF k % 2 = 1 THEN tokens[(k + 1) \div 2] ELSE ","]

C10_SingleEncoding ==
    (pc # "call" /\ pot_instance.kind = "instance" /\ pot_instance.pot_type # <<>>) =>
        LET T == pot_instance.pot_type
            A == pot_instance.pot_args
        IN  /\ pc = "returned"
            /\ ret.type_arg = JoinComma([k \in 1..Len(T) |-> ToString(T[k])])
                                 \o <<":">>
                                 \o JoinComma([k \in 1..Len(A) |-> StrFloat(A[k])])
            /\ ret.npot = pot_instance.npot
            /\ ret.pot_type = T
            /\ ret.pot_arg = A

\* two type codes and a long argument list, hidden from the printed line, returned
C10_Witness ==
    /\ pc = "returned" /\ pot_instance.kind = "instance"
    /\ Len(pot_instance.pot_type) = 2
    /\ Len(pot_instance.pot_args) > 12
    /\ ~print_long_list
    /\ Printed("long")

(***************************************************************************)
(* C11: printPotTypeArg completes and returns its four values (encoding,   *)
(* count, type list, argument list) for every potential that is not None,  *)
(* whatever the parser returned for it, a result with no type code         *)
(* included.                                                               *)
(***************************************************************************)
C11_Original ==
    (pc # "call" /\ pot_instance # None) =>
        /\ pc = "returned"
        /\ ~ret.raised

====
